---- MODULE Spec2Model ----
(***************************************************************************)
(* A model of scikit-fem's element hierarchy (skfem/element.py) and of     *)
(* InteriorBasis (skfem/assembly/global_basis/interior_basis.py).          *)
(*                                                                         *)
(* numpy arrays are functions over 0-based index ranges, so that an index  *)
(* of the model is the index of the source.  Floating point numbers are    *)
(* exact rationals <<numerator, denominator>>; a denominator of 0 stands   *)
(* for a non-finite float (inf or nan), which numpy produces, with a       *)
(* warning and without an exception, when it divides by zero.              *)
(***************************************************************************)
EXTENDS Integers, Sequences, FiniteSets, TLC

VARIABLES inp, ret, V, pbasis, last

vars == <<inp, ret, V, pbasis, last>>

(***************************************************************************)
(* Bounds of the model.                                                    *)
(***************************************************************************)
\* reference coordinates are a/GridDen with a in -GridDen..GridDen
GridDen == 2
\* local indices tried run from -MaxIndexSlack to Nbfun - 1 + MaxIndexSlack
MaxIndexSlack == 2
\* global vertex numbers of a triangle run over 0..MaxVertex, those of a
\* tetrahedron over 0..MaxVertex + 1
MaxVertex == 3
\* vertex coordinates of the one-triangle meshes run over 0..MaxCoord
MaxCoord == 2

(***************************************************************************)
(* Exact arithmetic.                                                       *)
(***************************************************************************)
Abs(n) == IF n < 0 THEN -n ELSE n

RECURSIVE Gcd(_, _)
Gcd(a, b) == IF b = 0 THEN a ELSE Gcd(b, a % b)

NonFinite == <<0, 0>>

Q(n, d) ==
    IF d = 0 THEN NonFinite
    ELSE LET g == Gcd(Abs(n), Abs(d))
             s == IF d < 0 THEN -1 ELSE 1
         IN  <<(s * n) \div g, (s * d) \div g>>

R(n) == <<n, 1>>
Zero == R(0)
One == R(1)
IsFinite(a) == a[2] # 0

RAdd(a, b) == IF a[2] = 0 \/ b[2] = 0 THEN NonFinite
              ELSE Q(a[1] * b[2] + b[1] * a[2], a[2] * b[2])
RNeg(a) == IF a[2] = 0 THEN NonFinite ELSE <<-a[1], a[2]>>
RSub(a, b) == RAdd(a, RNeg(b))
RMul(a, b) == IF a[2] = 0 \/ b[2] = 0 THEN NonFinite
              ELSE Q(a[1] * b[1], a[2] * b[2])
\* a/b of numpy floats: a zero divisor gives inf or nan, not an exception
RDiv(a, b) == IF a[2] = 0 \/ b[2] = 0 THEN NonFinite
              ELSE Q(a[1] * b[2], a[2] * b[1])
RAbs(a) == <<Abs(a[1]), a[2]>>
RSq(a) == RMul(a, a)

\* the sum of f[j] over j in 0..n-1
RECURSIVE RSum(_, _)
RSum(f, n) == IF n = 0 THEN Zero ELSE RAdd(RSum(f, n - 1), f[n - 1])

(***************************************************************************)
(* Outcomes of a call: a returned value or a raised exception.             *)
(***************************************************************************)
Ok(v) == [raised |-> "", value |-> v]
Raise(e) == [raised |-> e, value |-> <<>>]

\* Python's list and numpy indexing: a negative index counts from the end
InRange(i, n) == -n <= i /\ i < n
PyIndex(i, n) == IF i < 0 THEN n + i ELSE i

\* the number of points of a batch X of shape (dim, npts)
NPts(X) == Cardinality(DOMAIN X[0])
Pts(X) == DOMAIN X[0]

(***************************************************************************)
(* The catalogue of reference bases: lbasis(X, i) of each concrete         *)
(* element.  phi is indexed by the point (and first by the component for a *)
(* vector valued basis), dphi by the direction and the point.              *)
(***************************************************************************)
\* ElementTriP1.lbasis with a sign slip in the first function: 1 - x + y
ElementTriP1_lbasis_slip(X, i) ==
    LET x == X[0]
        y == X[1]
    IN  IF i = 0 THEN
            Ok([phi  |-> [l \in Pts(X) |-> RAdd(RSub(One, x[l]), y[l])],
                dphi |-> [d \in 0..1 |-> [l \in Pts(X) |-> R(-1)]]])
        ELSE IF i = 1 THEN
            Ok([phi  |-> [l \in Pts(X) |-> x[l]],
                dphi |-> [d \in 0..1 |-> [l \in Pts(X) |->
                            IF d = 0 THEN One ELSE Zero]]])
        ELSE IF i = 2 THEN
            Ok([phi  |-> [l \in Pts(X) |-> y[l]],
                dphi |-> [d \in 0..1 |-> [l \in Pts(X) |->
                            IF d = 0 THEN Zero ELSE One]]])
        ELSE Raise("Exception")

ElementTriP1_lbasis(X, i) ==
    LET x == X[0]
        y == X[1]
    IN  IF i = 0 THEN
            Ok([phi  |-> [l \in Pts(X) |-> RSub(RSub(One, x[l]), y[l])],
                dphi |-> [d \in 0..1 |-> [l \in Pts(X) |-> R(-1)]]])
        ELSE IF i = 1 THEN
            Ok([phi  |-> [l \in Pts(X) |-> x[l]],
                dphi |-> [d \in 0..1 |-> [l \in Pts(X) |->
                            IF d = 0 THEN One ELSE Zero]]])
        ELSE IF i = 2 THEN
            Ok([phi  |-> [l \in Pts(X) |-> y[l]],
                dphi |-> [d \in 0..1 |-> [l \in Pts(X) |->
                            IF d = 0 THEN Zero ELSE One]]])
        ELSE Raise("Exception")

\* no branch on i: every index gets the constant function
ElementTriP0_lbasis(X, i) ==
    Ok([phi  |-> [l \in Pts(X) |-> One],
        dphi |-> [d \in DOMAIN X |-> [l \in Pts(X) |-> Zero]]])

ElementTriRT0_lbasis(X, i) ==
    LET x == X[0]
        y == X[1]
        two == [l \in Pts(X) |-> R(2)]
    IN  IF i = 0 THEN
            Ok([phi  |-> [c \in 0..1 |-> [l \in Pts(X) |->
                            IF c = 0 THEN x[l] ELSE RSub(y[l], One)]],
                dphi |-> two])
        ELSE IF i = 1 THEN
            Ok([phi  |-> [c \in 0..1 |-> [l \in Pts(X) |->
                            IF c = 0 THEN x[l] ELSE y[l]]],
                dphi |-> two])
        ELSE IF i = 2 THEN
            Ok([phi  |-> [c \in 0..1 |-> [l \in Pts(X) |->
                            IF c = 0 THEN RSub(x[l], One) ELSE y[l]]],
                dphi |-> two])
        ELSE Raise("Exception")

Quarter == Q(1, 4)
Half == Q(1, 2)
M3(a, b, c) == RMul(RMul(a, b), c)

ElementQ1_lbasis(X, i) ==
    LET x == X[0]
        y == X[1]
        om(a) == RSub(One, a)       \* 1 - a
        op(a) == RAdd(One, a)       \* 1 + a
        mp(a) == RAdd(R(-1), a)     \* -1 + a
        mm(a) == RSub(R(-1), a)     \* -1 - a
    IN  IF i = 0 THEN
            Ok([phi  |-> [l \in Pts(X) |-> M3(Quarter, om(x[l]), om(y[l]))],
                dphi |-> [d \in 0..1 |-> [l \in Pts(X) |->
                            IF d = 0 THEN RMul(Quarter, mp(y[l]))
                            ELSE RMul(Quarter, mp(x[l]))]]])
        ELSE IF i = 1 THEN
            Ok([phi  |-> [l \in Pts(X) |-> M3(Quarter, op(x[l]), om(y[l]))],
                dphi |-> [d \in 0..1 |-> [l \in Pts(X) |->
                            IF d = 0 THEN RMul(Quarter, om(y[l]))
                            ELSE RMul(Quarter, mm(x[l]))]]])
        ELSE IF i = 2 THEN
            Ok([phi  |-> [l \in Pts(X) |-> M3(Quarter, op(x[l]), op(y[l]))],
                dphi |-> [d \in 0..1 |-> [l \in Pts(X) |->
                            IF d = 0 THEN RMul(Quarter, op(y[l]))
                            ELSE RMul(Quarter, op(x[l]))]]])
        ELSE IF i = 3 THEN
            Ok([phi  |-> [l \in Pts(X) |-> M3(Quarter, om(x[l]), op(y[l]))],
                dphi |-> [d \in 0..1 |-> [l \in Pts(X) |->
                            IF d = 0 THEN RMul(Quarter, mm(y[l]))
                            ELSE RMul(Quarter, om(x[l]))]]])
        ELSE Raise("Exception")

\* the value and the two reference derivatives of Q2's function i at (x, y)
ElementQ2_at(i, x, y) ==
    LET x2 == RSq(x)
        y2 == RSq(y)
        tx == RMul(R(2), x)
        ty == RMul(R(2), y)
        m1(a) == RAdd(R(-1), a)     \* -1 + a
        p1(a) == RAdd(One, a)       \*  1 + a
    IN  CASE i = 0 ->
            <<M3(Quarter, RSub(x2, x), RSub(y2, y)),
              RMul(Quarter, M3(m1(tx), m1(y), y)),
              RMul(Quarter, M3(m1(x), x, m1(ty)))>>
          [] i = 1 ->
            <<M3(Quarter, RAdd(x2, x), RSub(y2, y)),
              RMul(Quarter, M3(p1(tx), m1(y), y)),
              RMul(Quarter, M3(x, p1(x), m1(ty)))>>
          [] i = 2 ->
            <<M3(Quarter, RAdd(x2, x), RAdd(y2, y)),
              RMul(Quarter, M3(p1(tx), y, p1(y))),
              RMul(Quarter, M3(x, p1(x), p1(ty)))>>
          [] i = 3 ->
            <<M3(Quarter, RSub(x2, x), RAdd(y2, y)),
              RMul(Quarter, M3(m1(tx), y, p1(y))),
              RMul(Quarter, M3(m1(x), x, p1(ty)))>>
          [] i = 4 ->
            <<M3(Half, RSub(y2, y), RSub(One, x2)),
              RNeg(M3(x, m1(y), y)),
              RNeg(RMul(Half, RMul(m1(x2), m1(ty))))>>
          [] i = 5 ->
            <<M3(Half, RAdd(x2, x), RSub(One, y2)),
              RNeg(RMul(Half, RMul(p1(tx), m1(y2)))),
              RNeg(M3(x, p1(x), y))>>
          [] i = 6 ->
            <<M3(Half, RAdd(y2, y), RSub(One, x2)),
              RNeg(M3(x, y, p1(y))),
              RNeg(RMul(Half, RMul(m1(x2), p1(ty))))>>
          [] i = 7 ->
            <<M3(Half, RSub(x2, x), RSub(One, y2)),
              RNeg(RMul(Half, RMul(m1(tx), m1(y2)))),
              RNeg(M3(m1(x), x, y))>>
          [] i = 8 ->
            <<RMul(RSub(One, x2), RSub(One, y2)),
              M3(R(2), x, m1(y2)),
              M3(R(2), m1(x2), y)>>

ElementQ2_lbasis(X, i) ==
    IF i \in 0..8 THEN
        Ok([phi  |-> [l \in Pts(X) |-> ElementQ2_at(i, X[0][l], X[1][l])[1]],
            dphi |-> [d \in 0..1 |-> [l \in Pts(X) |->
                        ElementQ2_at(i, X[0][l], X[1][l])[d + 2]]]])
    ELSE Raise("Exception")

\* no branch on i: every index gets the constant function
ElementTetP0_lbasis(X, i) ==
    Ok([phi  |-> [l \in Pts(X) |-> One],
        dphi |-> [d \in DOMAIN X |-> [l \in Pts(X) |-> Zero]]])

ElementTetRT0_lbasis(X, i) ==
    LET three == [l \in Pts(X) |-> R(3)]
        \* the vector (x, y, z) with 1 subtracted from component c0 (none: -1)
        shifted(c0) == [c \in 0..2 |-> [l \in Pts(X) |->
                          IF c = c0 THEN RSub(X[c][l], One) ELSE X[c][l]]]
    IN  IF i = 0 THEN Ok([phi |-> shifted(2), dphi |-> three])
        ELSE IF i = 1 THEN Ok([phi |-> shifted(1), dphi |-> three])
        ELSE IF i = 2 THEN Ok([phi |-> shifted(0), dphi |-> three])
        ELSE IF i = 3 THEN Ok([phi |-> shifted(-1), dphi |-> three])
        ELSE Raise("Exception")

ElementTetN0_lbasis(X, i) ==
    LET x == X[0]
        y == X[1]
        z == X[2]
        vec(a, b, c) == [k \in 0..2 |-> IF k = 0 THEN a ELSE IF k = 1 THEN b ELSE c]
        const(n) == [l \in Pts(X) |-> R(n)]
        neg(a) == [l \in Pts(X) |-> RNeg(a[l])]
        \* 1 - a - b
        omm(a, b) == [l \in Pts(X) |-> RSub(RSub(One, a[l]), b[l])]
    IN  IF i = 0 THEN
            Ok([phi  |-> vec(omm(z, y), x, x),
                dphi |-> vec(const(0), const(-2), const(2))])
        ELSE IF i = 1 THEN
            Ok([phi  |-> vec(neg(y), x, const(0)),
                dphi |-> vec(const(0), const(0), const(2))])
        ELSE IF i = 2 THEN
            Ok([phi  |-> vec(y, omm(z, x), y),
                dphi |-> vec(const(2), const(0), const(-2))])
        ELSE IF i = 3 THEN
            Ok([phi  |-> vec(z, z, omm(x, y)),
                dphi |-> vec(const(-2), const(2), const(0))])
        ELSE IF i = 4 THEN
            Ok([phi  |-> vec(neg(z), const(0), x),
                dphi |-> vec(const(0), const(-2), const(0))])
        ELSE IF i = 5 THEN
            Ok([phi  |-> vec(const(0), neg(z), y),
                dphi |-> vec(const(2), const(0), const(0))])
        ELSE Raise("Exception")

(***************************************************************************)
(* Class attributes (element.py) and the local DOF count Nbfun, which      *)
(* GlobalBasis derives from them and from the reference domain's topology. *)
(***************************************************************************)
Attr(n, f, i, e, dim, maxdeg) ==
    [n_dofs |-> n, f_dofs |-> f, i_dofs |-> i, e_dofs |-> e,
     dim |-> dim, maxdeg |-> maxdeg]

ElementAttr(cls) ==
    CASE cls = "ElementTriP1"  -> Attr(1, 0, 0, 0, 2, 1)
      [] cls = "ElementTriP0"  -> Attr(0, 0, 1, 0, 2, 0)
      [] cls = "ElementTriRT0" -> Attr(0, 1, 0, 0, 2, 1)
      [] cls = "ElementMorley" -> Attr(1, 1, 0, 0, 2, 2)
      [] cls = "ElementQ1"     -> Attr(1, 0, 0, 0, 2, 2)
      [] cls = "ElementQ2"     -> Attr(1, 1, 1, 0, 2, 3)
      [] cls = "ElementTetP0"  -> Attr(0, 0, 1, 0, 3, 0)
      [] cls = "ElementTetRT0" -> Attr(0, 1, 0, 0, 3, 1)
      [] cls = "ElementTetN0"  -> Attr(0, 0, 0, 1, 3, 1)

\* the reference domain of each class: its vertices, facets and edges
RefDom(cls) ==
    CASE cls \in {"ElementTriP1", "ElementTriP0", "ElementTriRT0", "ElementMorley"}
           -> [name |-> "tri", nverts |-> 3, nfacets |-> 3, nedges |-> 0]
      [] cls \in {"ElementQ1", "ElementQ2"}
           -> [name |-> "quad", nverts |-> 4, nfacets |-> 4, nedges |-> 0]
      [] cls \in {"ElementTetP0", "ElementTetRT0", "ElementTetN0"}
           -> [name |-> "tet", nverts |-> 4, nfacets |-> 4, nedges |-> 6]

NbfunOf(a, dom) ==
    dom.nverts * a.n_dofs + dom.nfacets * a.f_dofs + dom.nedges * a.e_dofs + a.i_dofs

Nbfun(cls) == NbfunOf(ElementAttr(cls), RefDom(cls))

Lbasis(cls, X, i) ==
    CASE cls = "ElementTriP1"  -> ElementTriP1_lbasis(X, i)
      [] cls = "ElementTriP0"  -> ElementTriP0_lbasis(X, i)
      [] cls = "ElementTriRT0" -> ElementTriRT0_lbasis(X, i)
      [] cls = "ElementQ1"     -> ElementQ1_lbasis(X, i)
      [] cls = "ElementQ2"     -> ElementQ2_lbasis(X, i)
      [] cls = "ElementTetP0"  -> ElementTetP0_lbasis(X, i)
      [] cls = "ElementTetRT0" -> ElementTetRT0_lbasis(X, i)
      [] cls = "ElementTetN0"  -> ElementTetN0_lbasis(X, i)

(***************************************************************************)
(* The mesh and the mapping, which the core only reads.  A mesh is         *)
(* [p, t, t2f, f2t]: p[v] the coordinates of vertex v, t[n][k] vertex n of *)
(* element k, t2f[i][k] the facet at local place i of element k, f2t[s][f] *)
(* the elements beside facet f (-1: none).  A mapping is affine:           *)
(* [mesh, A, b] with x = A[k] X + b[k] on element k.                       *)
(***************************************************************************)
NElems(mesh) == Cardinality(DOMAIN mesh.t[0])
NVertsPerElem(mesh) == Cardinality(DOMAIN mesh.t)

\* an element subset: None, or the list ind of element numbers
TindNone == [none |-> TRUE, ind |-> <<>>]
Tind(f) == [none |-> FALSE, ind |-> f]
\* the elements a mapping function evaluates: all of them for tind=None
Rows(mapping, tind) ==
    IF tind.none THEN [k \in 0..(NElems(mapping.mesh) - 1) |-> k] ELSE tind.ind

Det(M) ==
    IF Cardinality(DOMAIN M) = 2
    THEN M[0][0] * M[1][1] - M[0][1] * M[1][0]
    ELSE   M[0][0] * (M[1][1] * M[2][2] - M[1][2] * M[2][1])
         - M[0][1] * (M[1][0] * M[2][2] - M[1][2] * M[2][0])
         + M[0][2] * (M[1][0] * M[2][1] - M[1][1] * M[2][0])

\* the adjugate: Inverse(M) = Adj(M) / Det(M)
Adj(M) ==
    IF Cardinality(DOMAIN M) = 2
    THEN [i \in 0..1 |-> [j \in 0..1 |->
            IF i = j THEN M[1 - i][1 - j] ELSE -M[i][j]]]
    ELSE [i \in 0..2 |-> [j \in 0..2 |->
            LET r1 == (j + 1) % 3
                r2 == (j + 2) % 3
                c1 == (i + 1) % 3
                c2 == (i + 2) % 3
            IN  M[r1][c1] * M[r2][c2] - M[r1][c2] * M[r2][c1]]]

Mapping_DF(mapping, X, tind) ==
    LET T == Rows(mapping, tind)
    IN  [i \in DOMAIN X |-> [j \in DOMAIN X |-> [k \in DOMAIN T |->
            [l \in Pts(X) |-> R(mapping.A[T[k]][i][j])]]]]

Mapping_detDF(mapping, X, tind) ==
    LET T == Rows(mapping, tind)
    IN  [k \in DOMAIN T |-> [l \in Pts(X) |-> R(Det(mapping.A[T[k]]))]]

Mapping_invDF(mapping, X, tind) ==
    LET T == Rows(mapping, tind)
    IN  [i \in DOMAIN X |-> [j \in DOMAIN X |-> [k \in DOMAIN T |->
            [l \in Pts(X) |->
                Q(Adj(mapping.A[T[k]])[i][j], Det(mapping.A[T[k]]))]]]]

Mapping_F(mapping, X, tind) ==
    LET T == Rows(mapping, tind)
    IN  [i \in DOMAIN X |-> [k \in DOMAIN T |-> [l \in Pts(X) |->
            RAdd(R(mapping.b[T[k]][i]),
                 RSum([j \in DOMAIN X |-> RMul(R(mapping.A[T[k]][i][j]), X[j][l])],
                      Cardinality(DOMAIN X)))]]]

(***************************************************************************)
(* Element.orient and the transforms gbasis of the element classes.        *)
(***************************************************************************)
\* Element.orient: all ones, one per element of the batch
Element_orient(mapping, i, tind) ==
    IF tind.none THEN [k \in DOMAIN mapping.mesh.t[0] |-> 1]
    ELSE [k \in DOMAIN tind.ind |-> 1]

\* lb is the outcome of self.lbasis(X, i), evaluated first
ElementH1_gbasis(lb, mapping, X, i, tind) ==
    IF lb.raised # "" THEN lb
    ELSE LET invDF == Mapping_invDF(mapping, X, tind)
             K == DOMAIN invDF[0][0]
             dim == Cardinality(DOMAIN X)
         IN  Ok([phi  |-> [k \in K |-> [l \in Pts(X) |-> lb.value.phi[l]]],
                 dphi |-> [j \in DOMAIN X |-> [k \in K |-> [l \in Pts(X) |->
                            RSum([a \in DOMAIN X |->
                                    RMul(invDF[a][j][k][l], lb.value.dphi[a][l])],
                                 dim)]]]])

\* ElementVectorH1.__init__: the wrapper's attributes
ElementVectorH1_init(elem) ==
    LET a == ElementAttr(elem)
    IN  [cls |-> "ElementVectorH1", elem |-> elem, dim |-> a.dim,
         n_dofs |-> a.n_dofs * a.dim, f_dofs |-> a.f_dofs * a.dim,
         i_dofs |-> a.i_dofs * a.dim, e_dofs |-> a.e_dofs * a.dim,
         maxdeg |-> a.maxdeg]

\* the remainder taken for the quotient
VectorH1_ind_rem(i, dim) == i % dim
\* int(np.floor(float(i)/float(self.dim))): \div rounds down, as floor does
VectorH1_ind(i, dim) == i \div dim
\* n = i - self.dim*ind
VectorH1_n(i, dim) == i - dim * VectorH1_ind(i, dim)

ElementVectorH1_gbasis(self, mapping, X, i, tind) ==
    LET ind == VectorH1_ind(i, self.dim)
        n == VectorH1_n(i, self.dim)
        r == ElementH1_gbasis(Lbasis(self.elem, X, ind), mapping, X, ind, tind)
    IN  IF r.raised # "" THEN r
        ELSE LET phi == r.value.phi
                 dphi == r.value.dphi
                 zphi == [k \in DOMAIN phi |-> [l \in DOMAIN phi[k] |-> Zero]]
                 zdphi == [j \in DOMAIN dphi |-> [k \in DOMAIN dphi[j] |->
                             [l \in DOMAIN dphi[j][k] |-> Zero]]]
             IN  Ok([phi  |-> [c \in 0..(self.dim - 1) |->
                                 IF c = n THEN phi ELSE zphi],
                     dphi |-> [c \in 0..(self.dim - 1) |->
                                 IF c = n THEN dphi ELSE zdphi]])

\* numpy's broadcast of a batch of m rows against an array of nt rows: the
\* number of rows of the result, 0 when the shapes do not broadcast
BroadcastRows(m, nt) ==
    IF m = nt THEN m ELSE IF m = 1 THEN nt ELSE IF nt = 1 THEN m ELSE 0
\* the row of an array of n rows that row k of the broadcast result reads
BRow(k, n) == IF n = 1 THEN 0 ELSE k

Bool2Int(b) == IF b THEN 1 ELSE 0

\* ElementHdiv.orient reading the second row of f2t
ElementHdiv_orient_second(mapping, i, tind) ==
    LET mesh == mapping.mesh
        nloc == Cardinality(DOMAIN mesh.t2f)
    IN  IF ~InRange(i, nloc) THEN Raise("IndexError")
        ELSE Ok([k \in 0..(NElems(mesh) - 1) |->
                   -1 + 2 * Bool2Int(mesh.f2t[1][mesh.t2f[PyIndex(i, nloc)][k]] = k)])

\* ElementHdiv.orient: tind is not used, every element of the mesh gets a sign
ElementHdiv_orient(mapping, i, tind) ==
    LET mesh == mapping.mesh
        nloc == Cardinality(DOMAIN mesh.t2f)
    IN  IF ~InRange(i, nloc) THEN Raise("IndexError")
        ELSE Ok([k \in 0..(NElems(mesh) - 1) |->
                   -1 + 2 * Bool2Int(mesh.f2t[0][mesh.t2f[PyIndex(i, nloc)][k]] = k)])

\* lb is the outcome of self.lbasis(X, i), evaluated first
ElementHdiv_gbasis(lb, mapping, X, i, tind) ==
    IF lb.raised # "" THEN lb
    ELSE LET DF == Mapping_DF(mapping, X, tind)
             detDF == Mapping_detDF(mapping, X, tind)
             o == ElementHdiv_orient(mapping, i, tind)
             m == Cardinality(DOMAIN detDF)
         IN  IF o.raised # "" THEN o
             ELSE LET orient == o.value
                      nt == Cardinality(DOMAIN orient)
                      K == BroadcastRows(m, nt)
                      \* 1/np.abs(detDF)*orient[:, None]
                      s == [k \in 0..(K - 1) |-> [l \in Pts(X) |->
                              RMul(RDiv(One, RAbs(detDF[BRow(k, m)][l])),
                                   R(orient[BRow(k, nt)]))]]
                  IN  IF K = 0 THEN Raise("ValueError")
                      ELSE Ok([
                        phi  |-> [a \in DOMAIN X |-> [k \in 0..(K - 1) |->
                                   [l \in Pts(X) |->
                                       RSum([j \in DOMAIN X |->
                                               M3(DF[a][j][BRow(k, m)][l],
                                                  lb.value.phi[j][l], s[k][l])],
                                            Cardinality(DOMAIN X))]]],
                        dphi |-> [k \in 0..(K - 1) |-> [l \in Pts(X) |->
                                   RDiv(lb.value.dphi[l],
                                        RMul(RAbs(detDF[BRow(k, m)][l]),
                                             R(orient[BRow(k, nt)])))]],
                        signs |-> [k \in 0..(K - 1) |-> orient[BRow(k, nt)]]])

\* the table of first endpoints with its last entry repeating the edge (1, 3)
HcurlT1_repeat == <<0, 1, 0, 0, 1, 1>>
\* the local endpoints of the six edges of a tetrahedron
HcurlT1 == <<0, 1, 0, 0, 1, 2>>
HcurlT2 == <<1, 2, 2, 3, 3, 3>>

\* ElementHcurl.orient: tind is not used, every element of the mesh gets a sign
ElementHcurl_orient(mapping, i, tind) ==
    LET mesh == mapping.mesh
    IN  IF ~InRange(i, Len(HcurlT1)) THEN Raise("IndexError")
        ELSE LET t1 == HcurlT1[PyIndex(i, Len(HcurlT1)) + 1]
                 t2 == HcurlT2[PyIndex(i, Len(HcurlT2)) + 1]
             IN  IF t1 \notin DOMAIN mesh.t \/ t2 \notin DOMAIN mesh.t
                 THEN Raise("IndexError")
                 ELSE Ok([k \in 0..(NElems(mesh) - 1) |->
                            1 - 2 * Bool2Int(mesh.t[t1][k] > mesh.t[t2][k])])

\* lb is the outcome of self.lbasis(X, i), evaluated first
ElementHcurl_gbasis(lb, mapping, X, i, tind) ==
    IF lb.raised # "" THEN lb
    ELSE LET DF == Mapping_DF(mapping, X, tind)
             invDF == Mapping_invDF(mapping, X, tind)
             detDF == Mapping_detDF(mapping, X, tind)
             o == ElementHcurl_orient(mapping, i, tind)
             m == Cardinality(DOMAIN detDF)
             dim == Cardinality(DOMAIN X)
         IN  IF o.raised # "" THEN o
             ELSE LET orient == o.value
                      nt == Cardinality(DOMAIN orient)
                      K == BroadcastRows(m, nt)
                      \* 1/detDF*orient[:, None]
                      s == [k \in 0..(K - 1) |-> [l \in Pts(X) |->
                              RMul(RDiv(One, detDF[BRow(k, m)][l]),
                                   R(orient[BRow(k, nt)]))]]
                  IN  IF K = 0 THEN Raise("ValueError")
                      ELSE Ok([
                        phi  |-> [j \in DOMAIN X |-> [k \in 0..(K - 1) |->
                                   [l \in Pts(X) |->
                                       RSum([a \in DOMAIN X |->
                                               M3(invDF[a][j][BRow(k, m)][l],
                                                  lb.value.phi[a][l],
                                                  R(orient[BRow(k, nt)]))],
                                            dim)]]],
                        dphi |-> [a \in DOMAIN X |-> [k \in 0..(K - 1) |->
                                   [l \in Pts(X) |->
                                       RSum([j \in DOMAIN X |->
                                               M3(DF[a][j][BRow(k, m)][l],
                                                  lb.value.dphi[j][l], s[k][l])],
                                            dim)]]],
                        signs |-> [k \in 0..(K - 1) |-> orient[BRow(k, nt)]]])

(***************************************************************************)
(* ElementH2 (ElementMorley).  The inverse Vandermonde matrix of element k *)
(* is kept as the vertex triple it was computed from: the rows of the      *)
(* Vandermonde matrix for the monomials x and y at the vertex DOFs are the *)
(* vertex coordinates themselves, so different triples give different      *)
(* matrices.  A basis value is kept as [V, i, x]: the combination of the   *)
(* power basis with column i of V, evaluated at the physical point x.      *)
(***************************************************************************)
VNone == [set |-> FALSE, M |-> <<>>]
VSet(M) == [set |-> TRUE, M |-> M]

\* len(self._pbasis): the monomials x^a y^b with a + b <= maxdeg
PbasisLen(maxdeg) == ((maxdeg + 1) * (maxdeg + 2)) \div 2

\* ElementH2._eval_dofs
ElementH2_eval_dofs(mesh, tind) ==
    LET T == IF tind.none THEN [k \in 0..(NElems(mesh) - 1) |-> k] ELSE tind.ind
    IN  IF NVertsPerElem(mesh) = 3
        THEN Ok([k \in DOMAIN T |-> [n \in 0..2 |-> mesh.p[mesh.t[n][T[k]]]]])
        ELSE Raise("NotImplementedError")

\* the cache computed anew by every call
ElementH2_cache_fresh(Vself, mapping, tind) ==
    LET ev == ElementH2_eval_dofs(mapping.mesh, tind)
    IN  [out |-> ev, V |-> IF ev.raised = "" THEN VSet(ev.value) ELSE Vself]

\* the cache after the test "if self.V is None" of gbasis
ElementH2_cache(Vself, mapping, tind) ==
    IF Vself.set THEN [out |-> Ok(Vself.M), V |-> Vself]
    ELSE LET ev == ElementH2_eval_dofs(mapping.mesh, tind)
         IN  [out |-> ev, V |-> IF ev.raised = "" THEN VSet(ev.value) ELSE Vself]

\* ElementH2.gbasis on an instance whose cache is Vself: the outcome and the
\* instance's cache afterwards
ElementH2_gbasis(Vself, maxdeg, mapping, X, i, tind) ==
    LET N == PbasisLen(maxdeg)
        c == ElementH2_cache(Vself, mapping, tind)
    IN  IF c.out.raised # "" THEN c
        ELSE LET x == Mapping_F(mapping, X, tind)
                 m == Cardinality(DOMAIN x[0])
                 mV == Cardinality(DOMAIN c.V.M)
                 comb == [k \in DOMAIN x[0] |-> [l \in Pts(X) |->
                            [V |-> c.V.M[BRow(k, mV)], i |-> PyIndex(i, N),
                             x |-> <<x[0][k][l], x[1][k][l]>>]]]
             IN  [out |-> IF ~InRange(i, N) THEN Raise("IndexError")
                          ELSE IF mV # m /\ mV # 1 THEN Raise("ValueError")
                          ELSE Ok([phi |-> comb, dphi |-> comb]),
                  V |-> c.V]

(***************************************************************************)
(* The quadrature rules of the reference triangle (skfem.quadrature).      *)
(***************************************************************************)
Third == Q(1, 3)
Sixth == Q(1, 6)
TwoThirds == Q(2, 3)

get_quadrature(refdom, norder) ==
    IF refdom = "quad"
    THEN \* the one-point Gauss rule of the square [-1, 1]^2 (norder <= 1)
         [X |-> [d \in 0..1 |-> [l \in 0..0 |-> Zero]],
          W |-> [l \in 0..0 |-> R(4)]]
    ELSE IF norder <= 1
    THEN [X |-> [d \in 0..1 |-> [l \in 0..0 |-> Third]],
          W |-> [l \in 0..0 |-> Half]]
    ELSE [X |-> [d \in 0..1 |-> [l \in 0..2 |->
                   IF (d = 0 /\ l = 1) \/ (d = 1 /\ l = 2) THEN TwoThirds ELSE Sixth]],
          W |-> [l \in 0..2 |-> Sixth]]

(***************************************************************************)
(* gbasis of an element object without state, and InteriorBasis.__init__.  *)
(***************************************************************************)
H1Classes == {"ElementTriP1", "ElementTriP0", "ElementQ1", "ElementQ2", "ElementTetP0"}
HdivClasses == {"ElementTriRT0", "ElementTetRT0"}
HcurlClasses == {"ElementTetN0"}
Classes == H1Classes \cup HdivClasses \cup HcurlClasses

\* an element object of a class without constructor arguments
Elem(cls) == [cls |-> cls]

ElemNbfun(elem) ==
    IF elem.cls = "ElementVectorH1"
    THEN NbfunOf(elem, RefDom(elem.elem))
    ELSE Nbfun(elem.cls)

Gbasis(elem, mapping, X, i, tind) ==
    IF elem.cls = "ElementVectorH1"
    THEN ElementVectorH1_gbasis(elem, mapping, X, i, tind)
    ELSE IF elem.cls \in H1Classes
    THEN ElementH1_gbasis(Lbasis(elem.cls, X, i), mapping, X, i, tind)
    ELSE IF elem.cls \in HdivClasses
    THEN ElementHdiv_gbasis(Lbasis(elem.cls, X, i), mapping, X, i, tind)
    ELSE ElementHcurl_gbasis(Lbasis(elem.cls, X, i), mapping, X, i, tind)

\* the first j below n whose call raised, n when none did
RECURSIVE FirstRaised(_, _, _)
FirstRaised(calls, j, n) ==
    IF j = n THEN n
    ELSE IF calls[j].raised # "" THEN j ELSE FirstRaised(calls, j + 1, n)

\* the weights without np.abs
InteriorBasis_dx_signed(detDF, W, nelems) ==
    [k \in 0..(nelems - 1) |-> [l \in DOMAIN W |-> RMul(detDF[k][l], W[l])]]

\* np.abs(self.mapping.detDF(self.X)) * np.tile(self.W, (self.nelems, 1))
InteriorBasis_dx(detDF, W, nelems) ==
    [k \in 0..(nelems - 1) |-> [l \in DOMAIN W |-> RMul(RAbs(detDF[k][l]), W[l])]]

\* InteriorBasis.__init__ with a check of the determinant's sign
InteriorBasis_init_checked(calls, nbfun, mapping, quad) ==
    LET bad == FirstRaised(calls, 0, nbfun)
        nelems == NElems(mapping.mesh)
        detDF == Mapping_detDF(mapping, quad.X, TindNone)
    IN  IF bad < nbfun THEN calls[bad]
        ELSE IF \E k \in DOMAIN detDF : \E l \in DOMAIN detDF[k] : detDF[k][l][1] <= 0
        THEN Raise("ValueError")
        ELSE Ok([basis |-> [j \in 0..(nbfun - 1) |-> calls[j].value],
                 X |-> quad.X, W |-> quad.W, nelems |-> nelems,
                 dx |-> InteriorBasis_dx(detDF, quad.W, nelems)])

\* InteriorBasis.__init__, given the outcomes calls[j] of
\* self.elem.gbasis(self.mapping, self.X, j) for j in range(self.Nbfun)
InteriorBasis_init(calls, nbfun, mapping, quad) ==
    LET bad == FirstRaised(calls, 0, nbfun)
        nelems == NElems(mapping.mesh)
    IN  IF bad < nbfun THEN calls[bad]
        ELSE Ok([basis |-> [j \in 0..(nbfun - 1) |-> calls[j].value],
                 X |-> quad.X, W |-> quad.W, nelems |-> nelems,
                 dx |-> InteriorBasis_dx(Mapping_detDF(mapping, quad.X, TindNone),
                                         quad.W, nelems)])

\* the calls of line 64 for an element object without state
BasisCalls(elem, mapping, X) ==
    [j \in 0..(ElemNbfun(elem) - 1) |-> Gbasis(elem, mapping, X, j, TindNone)]

(***************************************************************************)
(* Meshes: the tables t, t2f and f2t built from the cells, as the mesh     *)
(* classes build them, and the affine mapping of a mesh.                   *)
(***************************************************************************)
\* the local vertices of the facets of a reference domain, in local order
RefFacets(kind) ==
    CASE kind = "tri"  -> <<{0, 1}, {1, 2}, {0, 2}>>
      [] kind = "quad" -> <<{0, 1}, {1, 2}, {2, 3}, {0, 3}>>
      [] kind = "tet"  -> <<{0, 1, 2}, {0, 1, 3}, {0, 2, 3}, {1, 2, 3}>>

RECURSIVE Pow2(_)
Pow2(n) == IF n = 0 THEN 1 ELSE 2 * Pow2(n - 1)

RECURSIVE FacetKey(_)
FacetKey(f) ==
    IF f = {} THEN 0
    ELSE LET v == CHOOSE u \in f : TRUE IN Pow2(v) + FacetKey(f \ {v})

\* cells is a sequence of vertex tuples; first[f] tells, for a facet between
\* two cells, whether the cell of the higher number comes first in f2t
MeshOf(kind, p, cells, first) ==
    LET nt == Len(cells)
        rf == RefFacets(kind)
        facet(k, i) == {cells[k + 1][n + 1] : n \in rf[i + 1]}
        facets == {facet(k, i) : k \in 0..(nt - 1), i \in 0..(Len(rf) - 1)}
        no(f) == Cardinality({g \in facets : FacetKey(g) < FacetKey(f)})
        facetAt(n) == CHOOSE f \in facets : no(f) = n
        beside(f) == {k \in 0..(nt - 1) : \E i \in 0..(Len(rf) - 1) : facet(k, i) = f}
        lo(S) == CHOOSE k \in S : \A j \in S : k <= j
        hi(S) == CHOOSE k \in S : \A j \in S : k >= j
    IN  [kind |-> kind,
         p   |-> p,
         t   |-> [n \in 0..(Len(cells[1]) - 1) |-> [k \in 0..(nt - 1) |-> cells[k + 1][n + 1]]],
         t2f |-> [i \in 0..(Len(rf) - 1) |-> [k \in 0..(nt - 1) |-> no(facet(k, i))]],
         f2t |-> [s \in 0..1 |-> [n \in 0..(Cardinality(facets) - 1) |->
                    LET b == beside(facetAt(n))
                    IN  IF Cardinality(b) = 1
                        THEN (IF s = 0 THEN lo(b) ELSE -1)
                        ELSE IF (s = 0) = first THEN hi(b) ELSE lo(b)]]]

\* a mesh given by its cells alone, without the facet tables
MeshCells(kind, p, cells) ==
    [kind |-> kind,
     p   |-> p,
     t   |-> [n \in 0..(Len(cells[1]) - 1) |->
                [k \in 0..(Len(cells) - 1) |-> cells[k + 1][n + 1]]],
     t2f |-> <<>>,
     f2t |-> <<>>]

\* mesh.mapping(): the affine mapping of a triangular or tetrahedral mesh, and
\* of a mesh of parallelograms over the reference square [-1, 1]^2
MeshMapping(mesh) ==
    LET dim == IF mesh.kind = "tet" THEN 3 ELSE 2
        v(k, n) == mesh.p[mesh.t[n][k]]
    IN  [mesh |-> mesh,
         A |-> [k \in DOMAIN mesh.t[0] |-> [i \in 0..(dim - 1) |-> [j \in 0..(dim - 1) |->
                  IF mesh.kind = "quad"
                  THEN (v(k, IF j = 0 THEN 1 ELSE 3)[i + 1] - v(k, 0)[i + 1]) \div 2
                  ELSE v(k, j + 1)[i + 1] - v(k, 0)[i + 1]]]],
         b |-> [k \in DOMAIN mesh.t[0] |-> [i \in 0..(dim - 1) |->
                  IF mesh.kind = "quad"
                  THEN (v(k, 0)[i + 1] + v(k, 2)[i + 1]) \div 2
                  ELSE v(k, 0)[i + 1]]]]

\* a mapping with the Jacobian A[k] on element k, for a mesh without coordinates
JacobianMapping(mesh, A) ==
    [mesh |-> mesh, A |-> A,
     b |-> [k \in DOMAIN A |-> [i \in DOMAIN A[k] |-> 0]]]

Identity(dim) == [i \in 0..(dim - 1) |-> [j \in 0..(dim - 1) |-> IF i = j THEN 1 ELSE 0]]
\* the Jacobian of the second triangle of the unit square: determinant -1
Reflected2 == [i \in 0..1 |-> [j \in 0..1 |->
                 IF i = 0 /\ j = 0 THEN -1 ELSE IF i = 0 THEN 0 ELSE 1]]

\* the injective tuples of n vertices out of S
InjTuples(S, n) ==
    {c \in [1..n -> S] : \A a, b \in 1..n : a # b => c[a] # c[b]}
Range(c) == {c[a] : a \in DOMAIN c}

\* the meshes of one triangle
TriCells1 == {<<c>> : c \in InjTuples(0..MaxVertex, 3)}
\* the meshes of two triangles that share a facet; the first lies on 0, 1, 2
TriCells2 ==
    {<<a, b>> : a \in InjTuples(0..2, 3),
                b \in {c \in InjTuples(0..MaxVertex, 3) :
                          Cardinality(Range(c) \cap (0..2)) = 2}}
\* the meshes of one tetrahedron
TetCells1 == {<<c>> : c \in InjTuples(0..(MaxVertex + 1), 4)}
\* the meshes of two tetrahedra that share an edge or a face
TetCells2 ==
    {<<a, b>> : a \in InjTuples(0..3, 4),
                b \in {c \in InjTuples(0..(MaxVertex + 1), 4) :
                          Cardinality(Range(c) \cap (0..3)) \in {2, 3}}}

NoCoords == <<>>

\* the element subsets of a mesh of nt elements: None, single elements, and
\* for two elements both orders of the pair
Tinds(nt) ==
    {TindNone} \cup {Tind([k \in 0..0 |-> e]) : e \in 0..(nt - 1)}
    \cup (IF nt = 2 THEN {Tind([k \in 0..1 |-> k]), Tind([k \in 0..1 |-> 1 - k])}
          ELSE {})

Indices(n) == (-MaxIndexSlack)..(n - 1 + MaxIndexSlack)

(***************************************************************************)
(* State.  inp is the call a run of a pure function makes (drawn by Init), *)
(* ret its outcome.  V[e] and pbasis[e] are the attributes V and _pbasis   *)
(* of the ElementMorley instance e, last[e] the last call made with e.     *)
(***************************************************************************)
Instances == {"e1", "e2"}

\* a call: X and W are the quadrature rule of a basis construction
Call(fn, elem, mapping, X, W, i, tind) ==
    [fn |-> fn, elem |-> elem, mapping |-> mapping, X |-> X, W |-> W, i |-> i,
     tind |-> tind]

NoCall == Call("", Elem(""), <<>>, <<>>, <<>>, 0, TindNone)
NoRet == [fn |-> "", out |-> Raise("")]

InitState ==
    /\ ret = NoRet
    /\ V = [e \in Instances |-> VNone]
    /\ pbasis = [e \in Instances |-> FALSE]
    /\ last = [e \in Instances |-> [call |-> NoCall, out |-> Raise("")]]

\* a pure function is applied once to the call drawn by Init
Applies(fn) == inp.fn = fn /\ ret.fn = ""
Returns(out) ==
    /\ ret' = [fn |-> inp.fn, out |-> out]
    /\ UNCHANGED <<inp, V, pbasis, last>>

(***************************************************************************)
(* SpecOrient: the orientation signs and the Piola transforms that use     *)
(* them, on meshes of one or two cells.                                    *)
(***************************************************************************)
HdivMeshes ==
    {MeshOf("tri", NoCoords, c, FALSE) : c \in TriCells1}
    \cup {MeshOf("tri", NoCoords, c, f) : c \in TriCells2, f \in BOOLEAN}
\* the H(curl) element reads the connectivity t alone
HcurlMeshes ==
    {MeshCells("tet", NoCoords, c) : c \in TetCells1 \cup TetCells2}
\* the meshes the H(curl) transform is run on: the first cell in local order
HcurlGbasisMeshes ==
    {MeshCells("tet", NoCoords, c) :
        c \in {d \in TetCells1 \cup TetCells2 : d[1] = <<0, 1, 2, 3>>}}

Centroid(dim) == [d \in 0..(dim - 1) |-> [l \in 0..0 |-> Q(1, dim + 1)]]

\* the Jacobians tried on a mesh: the identity everywhere, and on two
\* elements also a reflection on the second
Jacobians(mesh, dim) ==
    {[k \in DOMAIN mesh.t[0] |-> Identity(dim)]}
    \cup (IF dim = 2 /\ NElems(mesh) = 2
          THEN {[k \in DOMAIN mesh.t[0] |-> IF k = 0 THEN Identity(2) ELSE Reflected2]}
          ELSE {})

\* ElementHcurl.orient is tried with every index and a subset on one cell,
\* and with the indices of the six edges on two cells
HcurlIndices(mesh) == IF NElems(mesh) = 1 THEN Indices(6) ELSE 0..5
HcurlTinds(mesh) ==
    IF NElems(mesh) = 1 THEN {TindNone, Tind([k \in 0..0 |-> 0])} ELSE {TindNone}

InitOrient ==
    /\ InitState
    /\ \/ \E mesh \in HdivMeshes, i \in Indices(3) : \E tind \in Tinds(NElems(mesh)) :
            inp = Call("ElementHdiv.orient", Elem("ElementTriRT0"),
                       JacobianMapping(mesh, [k \in DOMAIN mesh.t[0] |-> Identity(2)]),
                       Centroid(2), <<>>, i, tind)
       \/ \E mesh \in HdivMeshes, i \in Indices(3) : \E tind \in Tinds(NElems(mesh)) :
          \E A \in Jacobians(mesh, 2) :
            inp = Call("ElementHdiv.gbasis", Elem("ElementTriRT0"),
                       JacobianMapping(mesh, A), Centroid(2), <<>>, i, tind)
       \/ \E mesh \in HcurlMeshes : \E i \in HcurlIndices(mesh), tind \in HcurlTinds(mesh) :
            inp = Call("ElementHcurl.orient", Elem("ElementTetN0"),
                       JacobianMapping(mesh, [k \in DOMAIN mesh.t[0] |-> Identity(3)]),
                       Centroid(3), <<>>, i, tind)
       \/ \E mesh \in HcurlGbasisMeshes, i \in Indices(6) : \E tind \in Tinds(NElems(mesh)) :
            inp = Call("ElementHcurl.gbasis", Elem("ElementTetN0"),
                       JacobianMapping(mesh, [k \in DOMAIN mesh.t[0] |-> Identity(3)]),
                       Centroid(3), <<>>, i, tind)

CallHdivOrient ==
    /\ Applies("ElementHdiv.orient")
    /\ Returns(ElementHdiv_orient(inp.mapping, inp.i, inp.tind))

CallHdivGbasis ==
    /\ Applies("ElementHdiv.gbasis")
    /\ Returns(ElementHdiv_gbasis(Lbasis(inp.elem.cls, inp.X, inp.i),
                                  inp.mapping, inp.X, inp.i, inp.tind))

CallHcurlOrient ==
    /\ Applies("ElementHcurl.orient")
    /\ Returns(ElementHcurl_orient(inp.mapping, inp.i, inp.tind))

CallHcurlGbasis ==
    /\ Applies("ElementHcurl.gbasis")
    /\ Returns(ElementHcurl_gbasis(Lbasis(inp.elem.cls, inp.X, inp.i),
                                   inp.mapping, inp.X, inp.i, inp.tind))

NextOrient == CallHdivOrient \/ CallHdivGbasis \/ CallHcurlOrient \/ CallHcurlGbasis

SpecOrient == InitOrient /\ [][NextOrient]_vars

(***************************************************************************)
(* Properties of SpecOrient.                                               *)
(***************************************************************************)
Returned(fn) == ret.fn = fn /\ ret.out.raised = ""
MeshElems(mesh) == 0..(NElems(mesh) - 1)
LocalFacets(mesh) == DOMAIN mesh.t2f
Facets(mesh) == DOMAIN mesh.f2t[0]

\* f2t and t2f are mutually consistent: facet f lies beside exactly the
\* elements that list it, one or two of them, the first slot never empty
Consistent(mesh) ==
    \A f \in Facets(mesh) :
        LET beside == {k \in MeshElems(mesh) : \E i \in LocalFacets(mesh) : mesh.t2f[i][k] = f}
        IN  /\ mesh.f2t[0][f] \in beside
            /\ mesh.f2t[1][f] # mesh.f2t[0][f]
            /\ beside = {mesh.f2t[0][f], mesh.f2t[1][f]} \ {-1}

\* the sign ElementHdiv.orient gives element k for local index i
HdivSign(mapping, i, k) == ElementHdiv_orient(mapping, i, TindNone).value[k]

\* C2: on a mesh with consistent f2t and t2f, ElementHdiv.orient(mapping, i)
\* gives every element a sign in {-1, +1}, +1 exactly when the element is
\* f2t[0, t2f[i, element]]; of two distinct elements that share a facet one
\* gets +1 and the other -1 at the local indices of that facet, and an
\* element gets +1 on a boundary facet.
C2_HdivOrient ==
    (Returned("ElementHdiv.orient") /\ inp.i \in LocalFacets(inp.mapping.mesh)
        /\ Consistent(inp.mapping.mesh)) =>
    LET mesh == inp.mapping.mesh
        sign == ret.out.value
    IN  /\ DOMAIN sign = MeshElems(mesh)
        /\ \A k \in MeshElems(mesh) :
            LET f == mesh.t2f[inp.i][k]
            IN  /\ sign[k] \in {-1, 1}
                /\ (sign[k] = 1) <=> (k = mesh.f2t[0][f])
                /\ mesh.f2t[1][f] = -1 => sign[k] = 1
                /\ \A k2 \in MeshElems(mesh) \ {k} : \A i2 \in LocalFacets(mesh) :
                      mesh.t2f[i2][k2] = f =>
                          {sign[k], HdivSign(inp.mapping, i2, k2)} = {-1, 1}

\* C2's case: two elements share the facet at local index i of both, the
\* second listed first in f2t
C2_Witness ==
    /\ Returned("ElementHdiv.orient")
    /\ inp.i \in LocalFacets(inp.mapping.mesh)
    /\ NElems(inp.mapping.mesh) = 2
    /\ inp.mapping.mesh.t2f[inp.i][0] = inp.mapping.mesh.t2f[inp.i][1]
    /\ ret.out.value[0] = -1
    /\ ret.out.value[1] = 1

\* the vertices of the edge of local index i (0..5) in element k: <<at t1, at t2>>
EdgeOf(mesh, i, k) == <<mesh.t[HcurlT1[i + 1]][k], mesh.t[HcurlT2[i + 1]][k]>>
\* the edge run in the direction the sign gives it
Directed(e, sign) == IF sign = 1 THEN e ELSE <<e[2], e[1]>>
HcurlSign(mapping, i, k) == ElementHcurl_orient(mapping, i, TindNone).value[k]

\* C3: the table of ElementHcurl.orient lists each of the six edges of a
\* tetrahedron once as (t1, t2) with t1 < t2; the sign is +1 exactly when the
\* global vertex at t1 is smaller than the one at t2 and -1 otherwise; so the
\* directed edge runs from the lower to the higher global vertex, the same
\* way in any two elements that share the edge.
C3_HcurlOrient ==
    (Returned("ElementHcurl.orient") /\ inp.i \in 0..5) =>
    LET mesh == inp.mapping.mesh
        sign == ret.out.value
    IN  /\ Len(HcurlT1) = 6 /\ Len(HcurlT2) = 6
        /\ \A j \in 1..6 : HcurlT1[j] < HcurlT2[j]
        /\ {{HcurlT1[j], HcurlT2[j]} : j \in 1..6}
             = {e \in SUBSET (0..3) : Cardinality(e) = 2}
        /\ \A k \in MeshElems(mesh) :
            LET e == EdgeOf(mesh, inp.i, k)
                d == Directed(e, sign[k])
            IN  /\ sign[k] \in {-1, 1}
                /\ (sign[k] = 1) <=> (e[1] < e[2])
                /\ d[1] < d[2]
                /\ \A k2 \in MeshElems(mesh), i2 \in 0..5 :
                      {EdgeOf(mesh, i2, k2)[1], EdgeOf(mesh, i2, k2)[2]} = {e[1], e[2]} =>
                          Directed(EdgeOf(mesh, i2, k2), HcurlSign(inp.mapping, i2, k2)) = d

\* C3's case: two tetrahedra share the edge of local index i, which the first
\* stores ascending and the second descending
C3_Witness ==
    /\ Returned("ElementHcurl.orient")
    /\ inp.i \in 0..5
    /\ NElems(inp.mapping.mesh) = 2
    /\ EdgeOf(inp.mapping.mesh, inp.i, 0)[1] = EdgeOf(inp.mapping.mesh, inp.i, 1)[2]
    /\ EdgeOf(inp.mapping.mesh, inp.i, 0)[2] = EdgeOf(inp.mapping.mesh, inp.i, 1)[1]
    /\ ret.out.value[0] = 1
    /\ ret.out.value[1] = -1

\* C4: the sign applied to an element does not depend on the batch: orient
\* returns one sign per element of the batch, and with a subset tind gbasis
\* uses for the k-th element of the subset the sign of element tind[k].
C4_BatchIndependent ==
    /\ (Returned("ElementHdiv.orient") /\ inp.i \in 0..2) =>
          /\ DOMAIN ret.out.value = DOMAIN Rows(inp.mapping, inp.tind)
          /\ \A k \in DOMAIN ret.out.value :
                ret.out.value[k] = HdivSign(inp.mapping, inp.i, Rows(inp.mapping, inp.tind)[k])
    /\ (Returned("ElementHdiv.gbasis") /\ inp.i \in 0..2) =>
          /\ DOMAIN ret.out.value.signs = DOMAIN Rows(inp.mapping, inp.tind)
          /\ \A k \in DOMAIN ret.out.value.signs :
                ret.out.value.signs[k]
                    = HdivSign(inp.mapping, inp.i, Rows(inp.mapping, inp.tind)[k])
    /\ (ret.fn = "ElementHdiv.gbasis" /\ inp.i \in 0..2) => ret.out.raised = ""
    /\ (Returned("ElementHcurl.orient") /\ inp.i \in 0..5) =>
          /\ DOMAIN ret.out.value = DOMAIN Rows(inp.mapping, inp.tind)
          /\ \A k \in DOMAIN ret.out.value :
                ret.out.value[k] = HcurlSign(inp.mapping, inp.i, Rows(inp.mapping, inp.tind)[k])
    /\ (Returned("ElementHcurl.gbasis") /\ inp.i \in 0..5) =>
          /\ DOMAIN ret.out.value.signs = DOMAIN Rows(inp.mapping, inp.tind)
          /\ \A k \in DOMAIN ret.out.value.signs :
                ret.out.value.signs[k]
                    = HcurlSign(inp.mapping, inp.i, Rows(inp.mapping, inp.tind)[k])
    /\ (ret.fn = "ElementHcurl.gbasis" /\ inp.i \in 0..5) => ret.out.raised = ""

(***************************************************************************)
(* SpecElem: the reference bases, the transforms of the elements without   *)
(* state, and InteriorBasis.__init__ on them.                              *)
(***************************************************************************)
GridCoords == {Q(a, GridDen) : a \in (-GridDen)..GridDen}
\* the batches of one reference point on the grid
GridBatches(dim) ==
    {[d \in 0..(dim - 1) |-> [l \in 0..0 |-> c[d]]] : c \in [0..(dim - 1) -> GridCoords]}

VertexCoords == {<<x, y>> : x, y \in 0..MaxCoord}
\* the meshes of one triangle with the first vertex at the origin and the
\* others on the coordinate grid: both orientations, and the degenerate
\* triangles with collinear vertices
CoordTriMeshes ==
    {MeshOf("tri", [v \in 0..2 |-> c[v + 1]], <<<<0, 1, 2>>>>, FALSE) :
        c \in {d \in InjTuples(VertexCoords, 3) : d[1] = <<0, 0>>}}
\* the unit square cut into two triangles
MeshSquare ==
    MeshOf("tri", [v \in 0..3 |-> <<v % 2, v \div 2>>], <<<<0, 1, 2>>, <<1, 2, 3>>>>, FALSE)

\* the Jacobians with entries in -1..1, singular ones included
SmallMatrices == [0..1 -> [0..1 -> -1..1]]
OneCell(kind, n) == MeshCells(kind, NoCoords, <<[a \in 1..n |-> a - 1]>>)
\* the Jacobians of one tetrahedron: the identity, a reflection, a singular one
TetMatrices ==
    {[i \in 0..2 |-> [j \in 0..2 |-> IF i = j THEN (IF i = 0 THEN s ELSE 1) ELSE 0]] :
        s \in -1..1}

TriRules == {get_quadrature("tri", 1), get_quadrature("tri", 2)}
\* a rule of one point of the grid with weight 1
PointRules == {[X |-> X, W |-> [l \in 0..0 |-> One]] : X \in GridBatches(2)}

VectorElems == {ElementVectorH1_init(c) : c \in {"ElementTriP1", "ElementTriP0", "ElementQ1"}}

InitElem ==
    /\ InitState
    /\ \/ \E cls \in Classes : \E X \in GridBatches(ElementAttr(cls).dim), i \in Indices(Nbfun(cls)) :
            inp = Call("lbasis", Elem(cls), <<>>, X, <<>>, i, TindNone)
       \/ \E elem \in VectorElems \cup {Elem("ElementTriP1"), Elem("ElementTriRT0")},
             q \in TriRules, tind \in Tinds(2) :
          \E i \in Indices(ElemNbfun(elem)) :
            inp = Call("gbasis", elem, MeshMapping(MeshSquare), q.X, <<>>, i, tind)
       \/ \E i \in Indices(3), A \in TetMatrices, tind \in Tinds(1) :
            inp = Call("gbasis", ElementVectorH1_init("ElementTetP0"),
                       JacobianMapping(OneCell("tet", 4), [k \in 0..0 |-> A]),
                       Centroid(3), <<>>, i, tind)
       \/ \E i \in Indices(6), A \in TetMatrices :
            inp = Call("gbasis", Elem("ElementTetN0"),
                       JacobianMapping(OneCell("tet", 4), [k \in 0..0 |-> A]),
                       Centroid(3), <<>>, i, TindNone)
       \/ \E elem \in {Elem("ElementTriP1"), Elem("ElementTriP0"), Elem("ElementTriRT0"),
                       ElementVectorH1_init("ElementTriP1")},
             mesh \in CoordTriMeshes \cup {MeshSquare}, q \in TriRules :
            inp = Call("InteriorBasis", elem, MeshMapping(mesh), q.X, q.W, 0, TindNone)
       \/ \E cls \in {"ElementTriP1", "ElementQ1", "ElementQ2"}, A \in SmallMatrices,
             q \in PointRules :
            inp = Call("InteriorBasis", Elem(cls),
                       JacobianMapping(OneCell(RefDom(cls).name, RefDom(cls).nverts),
                                       [k \in 0..0 |-> A]),
                       q.X, q.W, 0, TindNone)

CallLbasis ==
    /\ Applies("lbasis")
    /\ Returns(Lbasis(inp.elem.cls, inp.X, inp.i))

CallGbasis ==
    /\ Applies("gbasis")
    /\ Returns(Gbasis(inp.elem, inp.mapping, inp.X, inp.i, inp.tind))

\* InteriorBasis(mesh, elem, mapping): (X, W) is the rule get_quadrature returned
CallInteriorBasis ==
    /\ Applies("InteriorBasis")
    /\ Returns(InteriorBasis_init(BasisCalls(inp.elem, inp.mapping, inp.X),
                                  ElemNbfun(inp.elem), inp.mapping,
                                  [X |-> inp.X, W |-> inp.W]))

NextElem == CallLbasis \/ CallGbasis \/ CallInteriorBasis

SpecElem == InitElem /\ [][NextElem]_vars

(***************************************************************************)
(* Properties of SpecElem.                                                 *)
(***************************************************************************)
InRangeIndex == inp.i \in 0..(ElemNbfun(inp.elem) - 1)

\* C5: lbasis of every concrete element, and ElementVectorH1.gbasis, raise
\* an error for every local index outside 0..Nbfun-1: no such index,
\* negative or too large, gets a value back.
C5_IndexChecked ==
    ((ret.fn = "lbasis" \/ (ret.fn = "gbasis" /\ inp.elem.cls = "ElementVectorH1"))
        /\ ~InRangeIndex) => ret.out.raised # ""

\* some element the call evaluates has a zero or negative Jacobian determinant
Degenerate ==
    LET T == Rows(inp.mapping, inp.tind)
    IN  \E k \in DOMAIN T : Det(inp.mapping.A[T[k]]) <= 0
PiolaCall == ret.fn = "gbasis" /\ inp.elem.cls \in HdivClasses \cup HcurlClasses
\* the determinant on the element that row k of a gbasis result reads
RowDet(k) ==
    LET T == Rows(inp.mapping, inp.tind)
    IN  Det(inp.mapping.A[T[BRow(k, Cardinality(DOMAIN T))]])

C8_VectorDecomposition ==
    (ret.fn = "gbasis" /\ inp.elem.cls = "ElementVectorH1" /\ InRangeIndex) =>
    LET d == inp.elem.dim
        a0 == ElementAttr(inp.elem.elem)
        N0 == Nbfun(inp.elem.elem)
        pairs == {bc \in (0..(N0 - 1)) \X (0..(d - 1)) : inp.i = d * bc[1] + bc[2]}
        split(i) == <<VectorH1_ind(i, d), VectorH1_n(i, d)>>
    IN  /\ ElemNbfun(inp.elem) = d * N0
        /\ Cardinality(pairs) = 1
        /\ ret.out.raised = ""
        /\ \A bc \in pairs :
            LET w == ElementH1_gbasis(Lbasis(inp.elem.elem, inp.X, bc[1]),
                                      inp.mapping, inp.X, bc[1], inp.tind)
                phi == ret.out.value.phi
                dphi == ret.out.value.dphi
            IN  /\ w.raised = ""
                /\ DOMAIN phi = 0..(d - 1)
                /\ DOMAIN dphi = 0..(d - 1)
                /\ phi[bc[2]] = w.value.phi
                /\ dphi[bc[2]] = w.value.dphi
                /\ \A c \in (0..(d - 1)) \ {bc[2]} :
                    /\ phi[c] = [k \in DOMAIN w.value.phi |->
                                   [l \in DOMAIN w.value.phi[k] |-> Zero]]
                    /\ dphi[c] = [j \in DOMAIN w.value.dphi |->
                                    [k \in DOMAIN w.value.dphi[j] |->
                                       [l \in DOMAIN w.value.dphi[j][k] |-> Zero]]]
        /\ {split(i) : i \in 0..(d * N0 - 1)} = (0..(N0 - 1)) \X (0..(d - 1))
        /\ \A i, j \in 0..(d * N0 - 1) : split(i) = split(j) => i = j
        /\ inp.elem.n_dofs = d * a0.n_dofs
        /\ inp.elem.f_dofs = d * a0.f_dofs
        /\ inp.elem.i_dofs = d * a0.i_dofs
        /\ inp.elem.e_dofs = d * a0.e_dofs

\* C8's case: the second component of a later base function of
\* ElementVectorH1(ElementTriP1), not zero in its slot and zero in the other
C8_Witness ==
    /\ Returned("gbasis")
    /\ inp.elem.cls = "ElementVectorH1"
    /\ inp.elem.elem = "ElementTriP1"
    /\ InRangeIndex
    /\ VectorH1_ind(inp.i, inp.elem.dim) >= 1
    /\ VectorH1_n(inp.i, inp.elem.dim) = 1
    /\ ret.out.value.phi[1][0][0] # Zero
    /\ ret.out.value.phi[0][0][0] = Zero

\* C9: dx holds one value per (element k, quadrature point q), equal to
\* |detDF(X)[k, q]| * W[q]; with positive weights no entry is negative; on one
\* reference triangle under the identity mapping the entries sum to 1/2.
C9_Dx ==
    Returned("InteriorBasis") =>
    LET dx == ret.out.value.dx
        mesh == inp.mapping.mesh
        detDF == Mapping_detDF(inp.mapping, inp.X, TindNone)
    IN  /\ DOMAIN dx = MeshElems(mesh)
        /\ \A k \in MeshElems(mesh) :
            /\ DOMAIN dx[k] = DOMAIN inp.W
            /\ \A q \in DOMAIN inp.W : dx[k][q] = RMul(RAbs(detDF[k][q]), inp.W[q])
        /\ (\A q \in DOMAIN inp.W : inp.W[q][1] > 0) =>
              \A k \in MeshElems(mesh) : \A q \in DOMAIN inp.W :
                  IsFinite(dx[k][q]) /\ dx[k][q][1] >= 0
        /\ (NElems(mesh) = 1 /\ inp.mapping.A[0] = Identity(2)
                /\ [X |-> inp.X, W |-> inp.W] \in TriRules) =>
              RSum(dx[0], NPts(inp.X)) = Half

\* C9's case: the reference triangle under the identity mapping with the
\* rule of three points
C9_Witness ==
    /\ Returned("InteriorBasis")
    /\ NElems(inp.mapping.mesh) = 1
    /\ inp.mapping.A[0] = Identity(2)
    /\ [X |-> inp.X, W |-> inp.W] = get_quadrature("tri", 2)
    /\ \A q \in 0..2 : ret.out.value.dx[0][q] = Sixth

\* C10: for ElementTriP1 (3 functions), ElementQ1 (4) and ElementQ2 (9), at
\* every reference point the lbasis values sum to 1 and the lbasis gradients
\* to zero in each component; the values ElementH1.gbasis returns sum to 1,
\* and its gradients to zero on every element whose Jacobian has an inverse.
C10_PartitionOfUnity ==
    (Returned("InteriorBasis")
        /\ inp.elem.cls \in {"ElementTriP1", "ElementQ1", "ElementQ2"}) =>
    LET cls == inp.elem.cls
        N == Nbfun(cls)
        basis == ret.out.value.basis
        lb(j) == Lbasis(cls, inp.X, j).value
    IN  /\ N = (CASE cls = "ElementTriP1" -> 3 [] cls = "ElementQ1" -> 4
                  [] cls = "ElementQ2" -> 9)
        /\ \A l \in Pts(inp.X) :
            /\ RSum([j \in 0..(N - 1) |-> lb(j).phi[l]], N) = One
            /\ \A d \in 0..1 : RSum([j \in 0..(N - 1) |-> lb(j).dphi[d][l]], N) = Zero
        /\ \A k \in MeshElems(inp.mapping.mesh) : \A l \in Pts(inp.X) :
            /\ RSum([j \in 0..(N - 1) |-> basis[j].phi[k][l]], N) = One
            /\ Det(inp.mapping.A[k]) # 0 =>
                  \A d \in 0..1 :
                      RSum([j \in 0..(N - 1) |-> basis[j].dphi[d][k][l]], N) = Zero

\* C10's case: ElementQ2 at a point that is no node, under a Jacobian of
\* determinant 2, with a gradient that is not zero
C10_Witness ==
    /\ Returned("InteriorBasis")
    /\ inp.elem.cls = "ElementQ2"
    /\ Det(inp.mapping.A[0]) = 2
    /\ inp.X[0][0] = Half
    /\ inp.X[1][0] = RNeg(Half)
    /\ ret.out.value.basis[8].dphi[0][0][0] # Zero

(***************************************************************************)
(* Spec: two ElementMorley instances used again and again, for gbasis      *)
(* calls and for basis constructions on the meshes of a small catalogue.   *)
(***************************************************************************)
MeshNames == {"ref", "square", "quad"}
MainMesh(name) ==
    CASE name = "ref" ->
           MeshCells("tri", [v \in 0..2 |-> <<v % 2, v \div 2>>], <<<<0, 1, 2>>>>)
      [] name = "square" ->
           MeshCells("tri", [v \in 0..3 |-> <<v % 2, v \div 2>>],
                     <<<<0, 1, 2>>, <<1, 2, 3>>>>)
      [] name = "quad" ->
           MeshCells("quad", [v \in 0..3 |-> <<IF v \in {1, 2} THEN 2 ELSE 0,
                                               IF v \in {2, 3} THEN 2 ELSE 0>>],
                     <<<<0, 1, 2, 3>>>>)

Morley == Elem("ElementMorley")
MorleyMaxdeg == ElementAttr("ElementMorley").maxdeg
MorleyN == PbasisLen(MorleyMaxdeg)

\* the subsets a direct gbasis call is made with
MainTinds(name) ==
    {TindNone, Tind([k \in 0..0 |-> NElems(MainMesh(name)) - 1])}
\* the local indices a direct gbasis call is made with
MainIndices == {0, MorleyN}
\* the orders a basis is constructed with
MainOrders == {1}

\* elem.gbasis(mapping, X, i, tind) on instance e
H2Gbasis(e, name, i, tind) ==
    LET mapping == MeshMapping(MainMesh(name))
        X == get_quadrature(MainMesh(name).kind, 1).X
        r == ElementH2_gbasis(V[e], MorleyMaxdeg, mapping, X, i, tind)
    IN  /\ V' = [V EXCEPT ![e] = r.V]
        /\ pbasis' = [pbasis EXCEPT ![e] = TRUE]
        /\ last' = [last EXCEPT ![e] =
                      [call |-> Call("gbasis", Morley, mapping, X, <<>>, i, tind),
                       out |-> r.out]]
        /\ UNCHANGED <<inp, ret>>

\* InteriorBasis(mesh, e, intorder=order): the first gbasis call fills the
\* cache if it is empty, the later ones find it as the first left it
InteriorBasisH2(e, name, order) ==
    LET mapping == MeshMapping(MainMesh(name))
        q == get_quadrature(MainMesh(name).kind, order)
        V1 == ElementH2_gbasis(V[e], MorleyMaxdeg, mapping, q.X, 0, TindNone).V
        calls == [j \in 0..(MorleyN - 1) |->
                    ElementH2_gbasis(V1, MorleyMaxdeg, mapping, q.X, j, TindNone).out]
    IN  /\ V' = [V EXCEPT ![e] = V1]
        /\ pbasis' = [pbasis EXCEPT ![e] = TRUE]
        /\ last' = [last EXCEPT ![e] =
                      [call |-> Call("InteriorBasis", Morley, mapping, q.X, q.W, 0, TindNone),
                       out |-> InteriorBasis_init(calls, MorleyN, mapping, q)]]
        /\ UNCHANGED <<inp, ret>>

Init == InitState /\ inp = NoCall

Next ==
    \/ \E e \in Instances, name \in MeshNames, i \in MainIndices :
       \E tind \in MainTinds(name) : H2Gbasis(e, name, i, tind)
    \/ \E e \in Instances, name \in MeshNames :
       \E order \in MainOrders : InteriorBasisH2(e, name, order)

Spec == Init /\ [][Next]_vars

(***************************************************************************)
(* Properties of Spec.                                                     *)
(***************************************************************************)
\* C1: two basis constructions with equal (mesh, element, mapping, order)
\* give equal results, whatever constructions or gbasis calls were made
\* before with the element instances.
C1_PureConstruction ==
    \A a, b \in Instances :
        (last[a].call.fn = "InteriorBasis" /\ last[b].call = last[a].call)
            => last[b].out = last[a].out

\* C6: gbasis of an ElementH2 element on a mesh whose elements do not have
\* three vertices fails with NotImplementedError, whatever gbasis calls were
\* made before with the instance.
C6_NotSupported ==
    \A e \in Instances :
        (last[e].call.fn = "gbasis" /\ NVertsPerElem(last[e].call.mapping.mesh) # 3)
            => last[e].out.raised = "NotImplementedError"

\* a step made by a call on instance e
Acts(e) == last'[e] # last[e] \/ pbasis'[e] # pbasis[e] \/ V'[e] # V[e]
\* the vertices of the elements a call evaluates: what _eval_dofs reads
CallVertices(call) ==
    LET T == Rows(call.mapping, call.tind)
        mesh == call.mapping.mesh
    IN  [k \in DOMAIN T |-> [n \in 0..2 |-> mesh.p[mesh.t[n][T[k]]]]]
\* V stays unset until the instance's first gbasis call
UnsetBeforeFirstCall == \A e \in Instances : ~pbasis[e] => ~V[e].set
\* a later gbasis call does not assign V again
NeverReassigned == \A e \in Instances : V[e].set => V'[e] = V[e]
\* a call on an instance whose V is set combines the power basis with that V
UsesCached ==
    \A e \in Instances :
        (Acts(e) /\ V[e].set /\ last'[e].call.fn = "gbasis" /\ last'[e].out.raised = "") =>
            \A k \in DOMAIN last'[e].out.value.phi :
            \A l \in DOMAIN last'[e].out.value.phi[k] :
                last'[e].out.value.phi[k][l].V
                    = V[e].M[BRow(k, Cardinality(DOMAIN V[e].M))]
\* a call on one instance leaves the cache of the other alone
OtherUntouched ==
    \A e, f \in Instances : (f # e /\ Acts(f)) => V'[e] = V[e]

====
